---------------------------- MODULE Spec2Model ----------------------------
(***************************************************************************)
(* State-machine model of talpid-core's connectivity monitor               *)
(* (src/talpid-core/src/offline/linux.rs) and of the Windows interface     *)
(* helpers (src/talpid-core/src/windows.rs).                               *)
(*                                                                         *)
(* Each component has its own variables, initial predicate and next-state  *)
(* relation; a specification of one component keeps the variables of the   *)
(* other components at their idle value.                                   *)
(***************************************************************************)
EXTENDS Integers, Sequences, FiniteSets, Bags, TLC

(***************************************************************************)
(* Bounds of the model.                                                    *)
(***************************************************************************)
\* Number of routing-change events the routing collaborator produces.
MaxRouteEvents == 5
\* Number of changes the OS makes to the IP interface table.
MaxIfChanges == 3
\* Number of rows of the OS's unicast address table.
MaxRows == 2
\* Longest time a thread::sleep takes, in poll intervals.
MaxOversleep == 2
\* Number of OS threads that run notification callbacks.
MaxCallbackThreads == 2
\* Number of callback invocations the OS starts.
MaxInvocations == 3

(***************************************************************************)
(* ConnectivityMonitor: offline/linux.rs                                   *)
(***************************************************************************)
VARIABLES
    spawn_pc,       \* position of spawn_monitor: "start", "listen", "returned", "failed"
    spawn_result,   \* what spawn_monitor returned: "pending", "Ok", "Err"
    init_probe,     \* outcome of the route lookup of line 48 ("none" before it)
    is_offline,     \* the task's local `is_offline` (lines 48, 72-73)
    listener_open,  \* the change listener's stream has not ended
    pending,        \* routing-change events buffered in the listener
    n_events,       \* routing-change events produced so far
    sender_strong,  \* a strong owner of the UnboundedSender exists outside the task
    task_pc,        \* the spawned task: "none", "await_event", "computing", "done"
    task_probe,     \* outcome of the task's most recent route lookup ("none" before it)
    sent,           \* payloads passed to unbounded_send(IsOffline(..)), in order
    history,        \* every offline state computed by spawn_monitor and its task, in order
    q_probe,        \* outcome of the route lookup of the last is_offline() call
    q_ret           \* value returned by the last is_offline() call

monVars == <<spawn_pc, spawn_result, init_probe, is_offline, listener_open, pending,
             n_events, sender_strong, task_pc, task_probe, sent, history, q_probe, q_ret>>

(***************************************************************************)
(* InterfaceWaiter: windows.rs, wait_for_interfaces                        *)
(***************************************************************************)
VARIABLES
    w_ipv4,         \* argument `ipv4`
    w_ipv6,         \* argument `ipv6`
    w_pc,           \* position of the call: "start", "check4", "check6", "await",
                    \* "return" (the value is fixed, `_handle` not yet dropped), "done"
    w_result,       \* what the call returns: "pending", "Ok", "Err"
    found_ipv4,     \* the closure's `found_ipv4`
    found_ipv6,     \* the closure's `found_ipv6`
    tx_some,        \* the closure's `tx` is still Some(tx)
    signalled,      \* number of tx.send(()) calls made
    registered,     \* the notifier registration (`_handle`) is live
    iface,          \* the OS's IP interface table: the <<luid, family>> entries that exist
    inflight,       \* bag of change notifications the OS has raised but not yet delivered
    n_changes,      \* interface changes made by the OS so far
    last_event,     \* the notification most recently delivered to the closure
    added_seen,     \* families of the Added notifications for `luid` delivered so far
    w_seen4,        \* outcome of the IPv4 existence query of line 226
    w_seen6,        \* outcome of the IPv6 existence query of line 227
    w_awaited       \* the call has reached `rx.await` (line 232)

waitVars == <<w_ipv4, w_ipv6, w_pc, w_result, found_ipv4, found_ipv6, tx_some, signalled,
              registered, iface, inflight, n_changes, last_event, added_seen,
              w_seen4, w_seen6, w_awaited>>

(***************************************************************************)
(* AddressReadinessChecker: windows.rs, wait_for_addresses                 *)
(***************************************************************************)
VARIABLES
    a_table,        \* the OS's unicast address table: a sequence of [luid, dad] rows
    a_rows,         \* `unicast_rows`: indices into a_table of the rows kept by the filter
    a_pc,           \* the async caller: "start", "awaiting", "returned"
    a_result,       \* what wait_for_addresses returned (NoResult before it returns)
    wk_pc,          \* the worker thread: "none", "spawned", "loop" (at the test of
                    \* line 289), "query" (in the `for row` loop), "sleep", "finished",
                    \* "unwound" (ended without reaching tx.send: tx was dropped)
    a_chan,         \* the value sent through the oneshot channel (NoResult before)
    now,            \* Instant::now(), in milliseconds
    deadline,       \* the worker's `deadline`
    a_polled,       \* a GetUnicastIpAddressEntry call has been made
    a_queries,      \* GetUnicastIpAddressEntry calls made by the last poll round
                    \* (the pass of the `for row` loop that is running or ran last)
    a_retried,      \* thread::sleep has been called
    a_failed,       \* rows whose query the OS failed in the last poll round
    a_seen          \* the DadState each successful query of the last poll round
                    \* returned, in order

addrVars == <<a_table, a_rows, a_pc, a_result, wk_pc, a_chan, now, deadline,
              a_polled, a_queries, a_retried, a_failed, a_seen>>

(***************************************************************************)
(* InterfaceChangeNotifier: windows.rs, IpNotifierHandle                   *)
(***************************************************************************)
VARIABLES
    n_pc,           \* the handle's owner: "start", "live", "cancelling", "cancelled",
                    \* "freed"
    n_result,       \* what notify_ip_interface_change returned: "pending", "Ok", "Err"
    n_token,        \* the OS issued a registration token (`handle` is not null)
    os_reg,         \* the OS holds the registration and may start callbacks
    cb,             \* per OS thread, its position in inner_callback: "idle",
                    \* "entered", "running"
    mutex_holder,   \* the thread that holds `callback`'s mutex (0: none)
    poisoned,       \* the mutex is poisoned
    mem,            \* the handle's storage (the closure included): "live", "freed"
    n_started,      \* callback invocations the OS has started
    n_runs,         \* executions of the user closure
    runs_poisoned,  \* executions of the user closure begun with the mutex poisoned
    cancel_token,   \* CancelMibChangeNotify2 calls made with the issued token
    cancel_null,    \* CancelMibChangeNotify2 calls made with a null handle
    cancel_overlap, \* a callback was running when the cancellation was requested
    uaf,            \* a callback touched the handle's storage after it was freed
    aborted         \* the process was aborted by a panic in a callback

notVars == <<n_pc, n_result, n_token, os_reg, cb, mutex_holder, poisoned, mem,
             n_started, n_runs, runs_poisoned, cancel_token, cancel_null,
             cancel_overlap, uaf, aborted>>

(***************************************************************************)
(* AddressCodec: windows.rs, inet_sockaddr_from_socketaddr,                *)
(* try_socketaddr_from_inet_sockaddr and AddressFamily::try_from_af_family *)
(***************************************************************************)
VARIABLES
    c_pc,           \* "idle", "start", "native" (a SOCKADDR_INET is at hand), "decoded",
                    \* or the signal that killed the process: "SIGABRT", "SIGSEGV"
    c_addr,         \* the SocketAddr given to inet_sockaddr_from_socketaddr
    c_native,       \* the SOCKADDR_INET, as its bytes in memory
    c_src,          \* where c_native comes from: "none", "encode", "os"
    c_decoded,      \* result of try_socketaddr_from_inet_sockaddr(c_native)
    c_tag,          \* the u16 given to try_from_af_family
    c_family        \* result of try_from_af_family(c_tag)

codecVars == <<c_pc, c_addr, c_native, c_src, c_decoded, c_tag, c_family>>

\* The variables a specification of one component leaves alone.
nonMonVars == <<waitVars, addrVars, notVars, codecVars>>
nonWaitVars == <<monVars, addrVars, notVars, codecVars>>
nonAddrVars == <<monVars, waitVars, notVars, codecVars>>
nonNotVars == <<monVars, waitVars, addrVars, codecVars>>
nonCodecVars == <<monVars, waitVars, addrVars, notVars>>

vars == <<monVars, waitVars, addrVars, notVars, codecVars>>

\* RouteManagerHandle::get_destination_route: Ok(Some(route)), Ok(None) or Err.
RouteResults == {"route", "noroute", "error"}

\* Result<bool> as a record.
OkBool(b) == [ok |-> TRUE, val |-> b]
ErrRoute == [ok |-> FALSE, val |-> FALSE]

\* public_ip_unreachable: the lookup's error is mapped to RouteManagerError,
\* otherwise the result is whether no route was found (is_none()).
public_ip_unreachable(r) ==
    IF r = "error" THEN ErrRoute ELSE OkBool(r = "noroute")

\* Mutant of unwrap_or_false: a failed lookup counts as offline.
unwrap_or_true(res) == IF res.ok THEN res.val ELSE TRUE

\* unwrap_or_else(|err| { log; false }) of lines 65-71, and the match of lines 31-40.
unwrap_or_false(res) == IF res.ok THEN res.val ELSE FALSE

MonInit ==
    /\ spawn_pc = "start"
    /\ spawn_result = "pending"
    /\ init_probe = "none"
    /\ is_offline = FALSE
    /\ listener_open = FALSE
    /\ pending = 0
    /\ n_events = 0
    /\ sender_strong = TRUE
    /\ task_pc = "none"
    /\ task_probe = "none"
    /\ sent = <<>>
    /\ history = <<>>
    /\ q_probe = "none"
    /\ q_ret = FALSE

\* No monitor has been spawned.
MonIdle ==
    /\ spawn_pc = "idle"
    /\ spawn_result = "pending"
    /\ init_probe = "none"
    /\ is_offline = FALSE
    /\ listener_open = FALSE
    /\ pending = 0
    /\ n_events = 0
    /\ sender_strong = TRUE
    /\ task_pc = "none"
    /\ task_probe = "none"
    /\ sent = <<>>
    /\ history = <<>>
    /\ q_probe = "none"
    /\ q_ret = FALSE

\* Mutant of SpawnProbe: the initial lookup's error is swallowed as online,
\* the way the loop does it, instead of being returned.
SpawnProbeSwallow ==
    /\ spawn_pc = "start"
    /\ \E r \in RouteResults :
        LET v == unwrap_or_false(public_ip_unreachable(r)) IN
        /\ init_probe' = r
        /\ is_offline' = v
        /\ history' = <<v>>
        /\ spawn_pc' = "listen"
    /\ UNCHANGED <<spawn_result, listener_open, pending, n_events, sender_strong,
                   task_pc, task_probe, sent, q_probe, q_ret>>
    /\ UNCHANGED nonMonVars

\* spawn_monitor, line 48: the initial computation; `?` returns the error.
SpawnProbe ==
    /\ spawn_pc = "start"
    /\ \E r \in RouteResults :
        LET res == public_ip_unreachable(r) IN
        /\ init_probe' = r
        /\ IF res.ok
              THEN /\ is_offline' = res.val
                   /\ history' = <<res.val>>
                   /\ spawn_pc' = "listen"
                   /\ spawn_result' = spawn_result
              ELSE /\ spawn_pc' = "failed"
                   /\ spawn_result' = "Err"
                   /\ UNCHANGED <<is_offline, history>>
    /\ UNCHANGED <<listener_open, pending, n_events, sender_strong, task_pc,
                   task_probe, sent, q_probe, q_ret>>
    /\ UNCHANGED nonMonVars

\* spawn_monitor, lines 50-82: obtain the change listener (`?` on its error),
\* build the handle, spawn the task and return Ok(handle).
SpawnListen ==
    /\ spawn_pc = "listen"
    /\ \E listener_ok \in BOOLEAN :
        IF listener_ok
           THEN /\ listener_open' = TRUE
                /\ task_pc' = "await_event"
                /\ spawn_pc' = "returned"
                /\ spawn_result' = "Ok"
           ELSE /\ spawn_pc' = "failed"
                /\ spawn_result' = "Err"
                /\ UNCHANGED <<listener_open, task_pc>>
    /\ UNCHANGED <<init_probe, is_offline, pending, n_events, sender_strong,
                   task_probe, sent, history, q_probe, q_ret>>
    /\ UNCHANGED nonMonVars

\* The routing collaborator reports a routing-table change to the listener.
RouteChange ==
    /\ listener_open
    /\ n_events < MaxRouteEvents
    /\ pending' = pending + 1
    /\ n_events' = n_events + 1
    /\ UNCHANGED <<spawn_pc, spawn_result, init_probe, is_offline, listener_open,
                   sender_strong, task_pc, task_probe, sent, history, q_probe, q_ret>>
    /\ UNCHANGED nonMonVars

\* The routing collaborator goes away: the listener's stream ends.
ListenerClose ==
    /\ listener_open
    /\ listener_open' = FALSE
    /\ UNCHANGED <<spawn_pc, spawn_result, init_probe, is_offline, pending, n_events,
                   sender_strong, task_pc, task_probe, sent, history, q_probe, q_ret>>
    /\ UNCHANGED nonMonVars

\* The last strong owner of the sender outside the task drops it.
SenderDrop ==
    /\ sender_strong
    /\ sender_strong' = FALSE
    /\ UNCHANGED <<spawn_pc, spawn_result, init_probe, is_offline, listener_open,
                   pending, n_events, task_pc, task_probe, sent, history, q_probe, q_ret>>
    /\ UNCHANGED nonMonVars

\* Mutant of TaskNext: the sender is not checked before recomputing.
TaskNextNoUpgrade ==
    /\ task_pc = "await_event"
    /\ \/ /\ pending > 0
          /\ pending' = pending - 1
          /\ task_pc' = "computing"
       \/ /\ pending = 0
          /\ ~listener_open
          /\ task_pc' = "done"
          /\ pending' = pending
    /\ UNCHANGED <<spawn_pc, spawn_result, init_probe, is_offline, listener_open,
                   n_events, sender_strong, task_probe, sent, history, q_probe, q_ret>>
    /\ UNCHANGED nonMonVars

\* The task, lines 60-61 and 77: listener.next() yields an event and the weak
\* sender is upgraded (None => return), or the stream has ended (loop exit).
TaskNext ==
    /\ task_pc = "await_event"
    /\ \/ /\ pending > 0
          /\ pending' = pending - 1
          /\ task_pc' = IF sender_strong THEN "computing" ELSE "done"
       \/ /\ pending = 0
          /\ ~listener_open
          /\ task_pc' = "done"
          /\ pending' = pending
    /\ UNCHANGED <<spawn_pc, spawn_result, init_probe, is_offline, listener_open,
                   n_events, sender_strong, task_probe, sent, history, q_probe, q_ret>>
    /\ UNCHANGED nonMonVars

\* Mutant of TaskRecompute: the event is sent on every recomputation.
TaskRecomputeNoDedup ==
    /\ task_pc = "computing"
    /\ \E r \in RouteResults :
        LET new_offline_state == unwrap_or_false(public_ip_unreachable(r)) IN
        /\ task_probe' = r
        /\ history' = Append(history, new_offline_state)
        /\ is_offline' = new_offline_state
        /\ sent' = Append(sent, new_offline_state)
    /\ task_pc' = "await_event"
    /\ UNCHANGED <<spawn_pc, spawn_result, init_probe, listener_open, pending,
                   n_events, sender_strong, q_probe, q_ret>>
    /\ UNCHANGED nonMonVars

\* TaskRecompute without the assignment of line 73: a change is sent but not
\* stored.
TaskRecomputeNoStore ==
    /\ task_pc = "computing"
    /\ \E r \in RouteResults :
        LET new_offline_state == unwrap_or_false(public_ip_unreachable(r)) IN
        /\ task_probe' = r
        /\ history' = Append(history, new_offline_state)
        /\ IF new_offline_state # is_offline
              THEN /\ is_offline' = is_offline
                   /\ sent' = Append(sent, new_offline_state)
              ELSE UNCHANGED <<is_offline, sent>>
    /\ task_pc' = "await_event"
    /\ UNCHANGED <<spawn_pc, spawn_result, init_probe, listener_open, pending,
                   n_events, sender_strong, q_probe, q_ret>>
    /\ UNCHANGED nonMonVars

\* The task, lines 63-75: the recomputation completes; an error counts as
\* online; on a change the state is stored and IsOffline(state) is sent.
TaskRecompute ==
    /\ task_pc = "computing"
    /\ \E r \in RouteResults :
        LET new_offline_state == unwrap_or_false(public_ip_unreachable(r)) IN
        /\ task_probe' = r
        /\ history' = Append(history, new_offline_state)
        /\ IF new_offline_state # is_offline
              THEN /\ is_offline' = new_offline_state
                   /\ sent' = Append(sent, new_offline_state)
              ELSE UNCHANGED <<is_offline, sent>>
    /\ task_pc' = "await_event"
    /\ UNCHANGED <<spawn_pc, spawn_result, init_probe, listener_open, pending,
                   n_events, sender_strong, q_probe, q_ret>>
    /\ UNCHANGED nonMonVars

\* Mutant of IsOfflineQuery: the query stores its answer in the loop's state.
IsOfflineQueryStores ==
    /\ spawn_result = "Ok"
    /\ \E r \in RouteResults :
        /\ q_probe' = r
        /\ q_ret' = unwrap_or_false(public_ip_unreachable(r))
        /\ is_offline' = unwrap_or_false(public_ip_unreachable(r))
    /\ UNCHANGED <<spawn_pc, spawn_result, init_probe, listener_open,
                   pending, n_events, sender_strong, task_pc, task_probe, sent, history>>
    /\ UNCHANGED nonMonVars

\* MonitorHandle::is_offline, lines 30-41, on the handle spawn_monitor returned.
IsOfflineQuery ==
    /\ spawn_result = "Ok"
    /\ \E r \in RouteResults :
        /\ q_probe' = r
        /\ q_ret' = unwrap_or_false(public_ip_unreachable(r))
    /\ UNCHANGED <<spawn_pc, spawn_result, init_probe, is_offline, listener_open,
                   pending, n_events, sender_strong, task_pc, task_probe, sent, history>>
    /\ UNCHANGED nonMonVars

MonNext ==
    \/ SpawnProbe
    \/ SpawnListen
    \/ RouteChange
    \/ ListenerClose
    \/ SenderDrop
    \/ TaskNext
    \/ TaskRecompute
    \/ IsOfflineQuery

(***************************************************************************)
(* InterfaceWaiter: windows.rs, wait_for_interfaces                        *)
(***************************************************************************)
\* ws2def address families and netioapi notification types.
AF_INET == 2
AF_INET6 == 23
MibParameterNotification == 0
MibAddInstance == 1
MibDeleteInstance == 2

\* The families the OS keeps IP interface entries for, the interfaces of the
\* host, and the interface the call waits for.
Families == {AF_INET, AF_INET6}
NotificationTypes == {MibParameterNotification, MibAddInstance, MibDeleteInstance}
Luids == {"tun", "eth"}
w_luid == "tun"

NoEvent == [luid |-> "none", family |-> AF_INET, kind |-> MibParameterNotification]

\* The closure's captured state.
ClosureState == [found_ipv4 |-> found_ipv4, found_ipv6 |-> found_ipv6,
                 tx_some |-> tx_some, signalled |-> signalled]

\* Mutant of interface_callback: the notification's interface is not compared.
interface_callback_any_luid(c, row, notification_type) ==
    IF c.found_ipv4 /\ c.found_ipv6 THEN c
    ELSE IF notification_type # MibAddInstance THEN c
    ELSE LET c1 == [c EXCEPT !.found_ipv4 = IF row.family = AF_INET THEN TRUE ELSE @,
                             !.found_ipv6 = IF row.family = AF_INET6 THEN TRUE ELSE @]
         IN  IF c1.found_ipv4 /\ c1.found_ipv6 /\ c1.tx_some
                THEN [c1 EXCEPT !.tx_some = FALSE, !.signalled = @ + 1]
                ELSE c1

\* interface_callback with neither the early return of lines 202-204 nor the
\* take() of line 218: the sender is used whenever both flags are set.
interface_callback_resend(c, row, notification_type) ==
    IF notification_type # MibAddInstance THEN c
    ELSE IF row.luid # w_luid THEN c
    ELSE LET c1 == [c EXCEPT !.found_ipv4 = IF row.family = AF_INET THEN TRUE ELSE @,
                             !.found_ipv6 = IF row.family = AF_INET6 THEN TRUE ELSE @]
         IN  IF c1.found_ipv4 /\ c1.found_ipv6 /\ c1.tx_some
                THEN [c1 EXCEPT !.signalled = @ + 1]
                ELSE c1

\* The closure of lines 201-221.
interface_callback(c, row, notification_type) ==
    IF c.found_ipv4 /\ c.found_ipv6 THEN c
    ELSE IF notification_type # MibAddInstance THEN c
    ELSE IF row.luid # w_luid THEN c
    ELSE LET c1 == [c EXCEPT !.found_ipv4 = IF row.family = AF_INET THEN TRUE ELSE @,
                             !.found_ipv6 = IF row.family = AF_INET6 THEN TRUE ELSE @]
         IN  IF c1.found_ipv4 /\ c1.found_ipv6 /\ c1.tx_some
                THEN [c1 EXCEPT !.tx_some = FALSE, !.signalled = @ + 1]
                ELSE c1

\* ip_interface_entry_exists, lines 183-189: ERROR_NOT_FOUND is Ok(false),
\* any other failure of GetIpInterfaceEntry is returned.
ip_interface_entry_exists(family, l, os_fails) ==
    IF os_fails THEN "error"
    ELSE IF <<l, family>> \in iface THEN "present" ELSE "absent"

\* State at line 200, before the registration: lines 193-198 have run.
WaitInit ==
    /\ w_ipv4 \in BOOLEAN
    /\ w_ipv6 \in BOOLEAN
    /\ w_pc = "start"
    /\ w_result = "pending"
    /\ found_ipv4 = (IF w_ipv4 THEN FALSE ELSE TRUE)
    /\ found_ipv6 = (IF w_ipv6 THEN FALSE ELSE TRUE)
    /\ tx_some = TRUE
    /\ signalled = 0
    /\ registered = FALSE
    /\ iface \in SUBSET ({w_luid} \X Families)
    /\ inflight = EmptyBag
    /\ n_changes = 0
    /\ last_event = NoEvent
    /\ added_seen = {}
    /\ w_seen4 = "unchecked"
    /\ w_seen6 = "unchecked"
    /\ w_awaited = FALSE

\* No call of wait_for_interfaces is in progress.
WaitIdle ==
    /\ w_ipv4 = FALSE
    /\ w_ipv6 = FALSE
    /\ w_pc = "idle"
    /\ w_result = "pending"
    /\ found_ipv4 = TRUE
    /\ found_ipv6 = TRUE
    /\ tx_some = TRUE
    /\ signalled = 0
    /\ registered = FALSE
    /\ iface = {}
    /\ inflight = EmptyBag
    /\ n_changes = 0
    /\ last_event = NoEvent
    /\ added_seen = {}
    /\ w_seen4 = "unchecked"
    /\ w_seen6 = "unchecked"
    /\ w_awaited = FALSE

\* The OS adds, removes or changes an IP interface entry; while the
\* registration is live it raises the notification for it.
OsChange ==
    /\ n_changes < MaxIfChanges
    /\ \E l \in Luids, f \in Families, k \in NotificationTypes :
        /\ IF k = MibAddInstance THEN <<l, f>> \notin iface ELSE <<l, f>> \in iface
        /\ iface' = CASE k = MibAddInstance -> iface \cup {<<l, f>>}
                      [] k = MibDeleteInstance -> iface \ {<<l, f>>}
                      [] OTHER -> iface
        /\ inflight' = IF registered
                          THEN inflight (+) SetToBag({[luid |-> l, family |-> f, kind |-> k]})
                          ELSE inflight
    /\ n_changes' = n_changes + 1
    /\ UNCHANGED <<w_ipv4, w_ipv6, w_pc, w_result, found_ipv4, found_ipv6, tx_some,
                   signalled, registered, last_event, added_seen, w_seen4, w_seen6,
                   w_awaited>>
    /\ UNCHANGED nonWaitVars

\* inner_callback, lines 116-126: the OS delivers a raised notification to
\* the closure, under the handle's mutex.
Deliver ==
    /\ registered
    /\ \E e \in BagToSet(inflight) :
        LET c == interface_callback(ClosureState, e, e.kind) IN
        /\ inflight' = inflight (-) SetToBag({e})
        /\ found_ipv4' = c.found_ipv4
        /\ found_ipv6' = c.found_ipv6
        /\ tx_some' = c.tx_some
        /\ signalled' = c.signalled
        /\ last_event' = e
        /\ added_seen' = IF e.kind = MibAddInstance /\ e.luid = w_luid
                            THEN added_seen \cup {e.family}
                            ELSE added_seen
    /\ UNCHANGED <<w_ipv4, w_ipv6, w_pc, w_result, registered, iface, n_changes,
                   w_seen4, w_seen6, w_awaited>>
    /\ UNCHANGED nonWaitVars

\* Drop of `_handle` at the call's return: the registration is cancelled and
\* notifications not yet delivered are never delivered.
DropHandle ==
    /\ registered' = FALSE
    /\ inflight' = EmptyBag

\* Lines 200-223: notify_ip_interface_change; `?` returns its error.
WaitRegister ==
    /\ w_pc = "start"
    /\ \E status_ok \in BOOLEAN :
        IF status_ok
           THEN /\ registered' = TRUE
                /\ w_pc' = "check4"
                /\ w_result' = w_result
           ELSE /\ registered' = FALSE
                /\ w_pc' = "done"
                /\ w_result' = "Err"
    /\ UNCHANGED <<w_ipv4, w_ipv6, found_ipv4, found_ipv6, tx_some, signalled, iface,
                   inflight, n_changes, last_event, added_seen, w_seen4, w_seen6,
                   w_awaited>>
    /\ UNCHANGED nonWaitVars

\* Line 226: `!ipv4 || ip_interface_entry_exists(Ipv4, &luid)?`.
WaitCheck4 ==
    /\ w_pc = "check4"
    /\ \E os_fails \in BOOLEAN :
        LET r == IF ~w_ipv4 THEN "skipped"
                 ELSE ip_interface_entry_exists(AF_INET, w_luid, os_fails) IN
        /\ w_seen4' = r
        /\ CASE r \in {"skipped", "present"} ->
                  /\ w_pc' = "check6"
                  /\ UNCHANGED <<w_result, registered, inflight, w_awaited>>
             [] r = "absent" ->
                  /\ w_pc' = "await"
                  /\ w_awaited' = TRUE
                  /\ UNCHANGED <<w_result, registered, inflight>>
             [] OTHER ->
                  /\ w_pc' = "return"
                  /\ w_result' = "Err"
                  /\ UNCHANGED <<registered, inflight, w_awaited>>
    /\ UNCHANGED <<w_ipv4, w_ipv6, found_ipv4, found_ipv6, tx_some, signalled, iface,
                   n_changes, last_event, added_seen, w_seen6>>
    /\ UNCHANGED nonWaitVars

\* Mutant of WaitCheck6: the result of the existence check is ignored and the
\* call always waits for the closure's signal.
WaitCheck6AlwaysAwait ==
    /\ w_pc = "check6"
    /\ \E os_fails \in BOOLEAN :
        LET r == IF ~w_ipv6 THEN "skipped"
                 ELSE ip_interface_entry_exists(AF_INET6, w_luid, os_fails) IN
        /\ w_seen6' = r
        /\ w_pc' = "await"
        /\ w_awaited' = TRUE
        /\ UNCHANGED <<w_result, registered, inflight>>
    /\ UNCHANGED <<w_ipv4, w_ipv6, found_ipv4, found_ipv6, tx_some, signalled, iface,
                   n_changes, last_event, added_seen, w_seen4>>
    /\ UNCHANGED nonWaitVars

\* Lines 227-230: `!ipv6 || ip_interface_entry_exists(Ipv6, &luid)?`, and the
\* return of Ok(()) when the whole condition holds.
WaitCheck6 ==
    /\ w_pc = "check6"
    /\ \E os_fails \in BOOLEAN :
        LET r == IF ~w_ipv6 THEN "skipped"
                 ELSE ip_interface_entry_exists(AF_INET6, w_luid, os_fails) IN
        /\ w_seen6' = r
        /\ CASE r \in {"skipped", "present"} ->
                  /\ w_pc' = "return"
                  /\ w_result' = "Ok"
                  /\ UNCHANGED <<registered, inflight, w_awaited>>
             [] r = "absent" ->
                  /\ w_pc' = "await"
                  /\ w_awaited' = TRUE
                  /\ UNCHANGED <<w_result, registered, inflight>>
             [] OTHER ->
                  /\ w_pc' = "return"
                  /\ w_result' = "Err"
                  /\ UNCHANGED <<registered, inflight, w_awaited>>
    /\ UNCHANGED <<w_ipv4, w_ipv6, found_ipv4, found_ipv6, tx_some, signalled, iface,
                   n_changes, last_event, added_seen, w_seen4>>
    /\ UNCHANGED nonWaitVars

\* Lines 232-233: `rx.await` completes once the closure has sent, and Ok(())
\* is the value to return.
WaitResolve ==
    /\ w_pc = "await"
    /\ signalled > 0
    /\ w_pc' = "return"
    /\ w_result' = "Ok"
    /\ UNCHANGED <<w_ipv4, w_ipv6, found_ipv4, found_ipv6, tx_some, signalled, registered,
                   iface, inflight, n_changes, last_event, added_seen, w_seen4, w_seen6,
                   w_awaited>>
    /\ UNCHANGED nonWaitVars

\* The call returns: `_handle` goes out of scope (lines 110-114), after the
\* value to return was fixed; the OS and its callbacks run until then.
WaitReturn ==
    /\ w_pc = "return"
    /\ w_pc' = "done"
    /\ DropHandle
    /\ UNCHANGED <<w_ipv4, w_ipv6, w_result, found_ipv4, found_ipv6, tx_some, signalled,
                   iface, n_changes, last_event, added_seen, w_seen4, w_seen6, w_awaited>>
    /\ UNCHANGED nonWaitVars

WaitNext ==
    \/ OsChange
    \/ Deliver
    \/ WaitRegister
    \/ WaitCheck4
    \/ WaitCheck6
    \/ WaitResolve
    \/ WaitReturn

(***************************************************************************)
(* AddressReadinessChecker: windows.rs, wait_for_addresses                 *)
(***************************************************************************)
\* Lines 30-31, in milliseconds.
DAD_CHECK_TIMEOUT == 5000
DAD_CHECK_INTERVAL == 100

\* nldef NL_DAD_STATE.
IpDadStateInvalid == 0
IpDadStateTentative == 1
IpDadStateDuplicate == 2
IpDadStateDeprecated == 3
IpDadStatePreferred == 4
\* A state code nldef does not name.
IpDadStateOther == 5

DadStates == {IpDadStateInvalid, IpDadStateTentative, IpDadStateDuplicate,
              IpDadStateDeprecated, IpDadStatePreferred, IpDadStateOther}

\* The interface whose addresses are awaited.
a_luid == "tun"

\* Result<()> of this module, lines 36-70; `dad` is the DadStateError payload.
NoDad == [variant |-> "none", raw |-> 0]
Res(kind, dad) == [kind |-> kind, dad |-> dad]
NoResult == Res("pending", NoDad)
OkResult == Res("Ok", NoDad)

\* impl From<NL_DAD_STATE> for DadStateError, lines 259-269.
DadStateErrorFrom(state) ==
    CASE state = IpDadStateInvalid -> [variant |-> "Invalid", raw |-> 0]
      [] state = IpDadStateDuplicate -> [variant |-> "Duplicate", raw |-> 0]
      [] state = IpDadStateDeprecated -> [variant |-> "Deprecated", raw |-> 0]
      [] OTHER -> [variant |-> "Unknown", raw |-> state]

\* row_verdict with the test of lines 299-302 lost: a Tentative address is
\* passed over as if it were Preferred.
row_verdict_tentative_ok(status_ok, dad) ==
    IF ~status_ok THEN Res("ObtainUnicastAddress", NoDad)
    ELSE IF dad \in {IpDadStateTentative, IpDadStatePreferred} THEN Res("Preferred", NoDad)
    ELSE Res("DadStateError", DadStateErrorFrom(dad))

\* Lines 293-306, the body of the `for row` loop for one row: `status_ok` is
\* whether GetUnicastIpAddressEntry returned NO_ERROR, `dad` the DadState it
\* stored in the row.  "NotReady" is the `break` of line 301, "Preferred" the
\* fall through to the next row.
row_verdict(status_ok, dad) ==
    IF ~status_ok THEN Res("ObtainUnicastAddress", NoDad)
    ELSE IF dad = IpDadStateTentative THEN Res("NotReady", NoDad)
    ELSE IF dad # IpDadStatePreferred THEN Res("DadStateError", DadStateErrorFrom(dad))
    ELSE Res("Preferred", NoDad)

\* The time a GetUnicastIpAddressEntry call may take: none to speak of, a
\* poll interval, or (the call or the thread stalls) so long that it returns
\* two poll intervals after the deadline.
QueryDurations ==
    {0, DAD_CHECK_INTERVAL} \cup
        (IF now < deadline THEN {deadline + 2 * DAD_CHECK_INTERVAL - now} ELSE {})

\* Lines 274-278: the rows of the table that belong to the interface.
RECURSIVE filter_rows(_, _)
filter_rows(table, i) ==
    IF i > Len(table) THEN <<>>
    ELSE IF table[i].luid = a_luid
       THEN <<i>> \o filter_rows(table, i + 1)
       ELSE filter_rows(table, i + 1)

\* The tables the call may find: the addresses of the other interfaces have
\* long completed duplicate address detection.
Tables ==
    {t \in UNION {[1..n -> [luid : Luids, dad : DadStates]] : n \in 0..MaxRows} :
        \A i \in DOMAIN t : t[i].luid # a_luid => t[i].dad = IpDadStatePreferred}

AddrInit ==
    /\ a_table \in Tables
    /\ a_rows = <<>>
    /\ a_pc = "start"
    /\ a_result = NoResult
    /\ wk_pc = "none"
    /\ a_chan = NoResult
    /\ now = 0
    /\ deadline = 0
    /\ a_polled = FALSE
    /\ a_queries = 0
    /\ a_retried = FALSE
    /\ a_failed = {}
    /\ a_seen = <<>>

\* No call of wait_for_addresses is in progress.
AddrIdle ==
    /\ a_table = <<>>
    /\ a_rows = <<>>
    /\ a_pc = "idle"
    /\ a_result = NoResult
    /\ wk_pc = "none"
    /\ a_chan = NoResult
    /\ now = 0
    /\ deadline = 0
    /\ a_polled = FALSE
    /\ a_queries = 0
    /\ a_retried = FALSE
    /\ a_failed = {}
    /\ a_seen = <<>>

\* Duplicate address detection moves an address of the interface to another
\* state while the call is in progress.
DadChange ==
    /\ a_pc = "awaiting"
    /\ wk_pc \notin {"finished", "unwound"}
    /\ \E i \in 1..Len(a_table), st \in DadStates :
        /\ a_table[i].luid = a_luid
        /\ a_table[i].dad # st
        /\ a_table' = [a_table EXCEPT ![i].dad = st]
    /\ UNCHANGED <<a_rows, a_pc, a_result, wk_pc, a_chan, now, deadline, a_polled,
                   a_queries, a_retried, a_failed, a_seen>>
    /\ UNCHANGED nonAddrVars

\* AddrStart without the check of lines 279-281: the worker is spawned for an
\* empty candidate list too.
AddrStartNoEmptyCheck ==
    /\ a_pc = "start"
    /\ \E table_ok \in BOOLEAN :
        IF ~table_ok
           THEN /\ a_result' = Res("ObtainUnicastAddress", NoDad)
                /\ a_pc' = "returned"
                /\ UNCHANGED <<a_rows, wk_pc>>
           ELSE /\ a_rows' = filter_rows(a_table, 1)
                /\ a_pc' = "awaiting"
                /\ wk_pc' = "spawned"
                /\ a_result' = a_result
    /\ UNCHANGED <<a_table, a_chan, now, deadline, a_polled, a_queries, a_retried, a_failed, a_seen>>
    /\ UNCHANGED nonAddrVars

\* Lines 274-283 and 316-318: read and filter the table, fail on an OS error
\* or on no row, otherwise create the channel and spawn the worker.
AddrStart ==
    /\ a_pc = "start"
    /\ \E table_ok \in BOOLEAN :
        IF ~table_ok
           THEN /\ a_result' = Res("ObtainUnicastAddress", NoDad)
                /\ a_pc' = "returned"
                /\ UNCHANGED <<a_rows, wk_pc>>
           ELSE LET unicast_rows == filter_rows(a_table, 1) IN
                /\ a_rows' = unicast_rows
                /\ IF unicast_rows = <<>>
                      THEN /\ a_result' = Res("NoUnicastAddress", NoDad)
                           /\ a_pc' = "returned"
                           /\ wk_pc' = wk_pc
                      ELSE /\ a_pc' = "awaiting"
                           /\ wk_pc' = "spawned"
                           /\ a_result' = a_result
    /\ UNCHANGED <<a_table, a_chan, now, deadline, a_polled, a_queries, a_retried, a_failed, a_seen>>
    /\ UNCHANGED nonAddrVars

\* Line 288: the worker thread starts and fixes its deadline.
WorkerStart ==
    /\ wk_pc = "spawned"
    /\ deadline' = now + DAD_CHECK_TIMEOUT
    /\ wk_pc' = "loop"
    /\ UNCHANGED <<a_table, a_rows, a_pc, a_result, a_chan, now, a_polled, a_queries,
                   a_retried, a_failed, a_seen>>
    /\ UNCHANGED nonAddrVars

\* WorkerLoopTest with the loop condition of line 289 always true.
WorkerLoopTestNoDeadline ==
    /\ wk_pc = "loop"
    /\ wk_pc' = "query"
    /\ a_queries' = 0
    /\ a_failed' = {}
    /\ a_seen' = <<>>
    /\ UNCHANGED <<a_table, a_rows, a_pc, a_result, a_chan, now, deadline, a_polled,
                   a_retried>>
    /\ UNCHANGED nonAddrVars

\* Lines 289 and 314-317: the loop condition.  Before the deadline a pass of
\* the `for row` loop begins; otherwise DeviceReadyTimeout is sent.
WorkerLoopTest ==
    /\ wk_pc = "loop"
    /\ IF now < deadline
          THEN /\ wk_pc' = "query"
               /\ a_queries' = 0
               /\ a_failed' = {}
               /\ a_seen' = <<>>
               /\ a_chan' = a_chan
          ELSE /\ wk_pc' = "finished"
               /\ a_chan' = Res("DeviceReadyTimeout", NoDad)
               /\ UNCHANGED <<a_queries, a_failed, a_seen>>
    /\ UNCHANGED <<a_table, a_rows, a_pc, a_result, now, deadline, a_polled, a_retried>>
    /\ UNCHANGED nonAddrVars

\* Lines 292-310 and 317 for the next row of the pass: one
\* GetUnicastIpAddressEntry call, which takes time and reads the row's state
\* as the OS has it then, and what the loop body makes of it; a verdict that
\* ends the wait is sent through the channel.
WorkerQuery ==
    /\ wk_pc = "query"
    /\ \E status_ok \in BOOLEAN, d \in QueryDurations :
        LET i == a_queries + 1
            dad == a_table[a_rows[i]].dad
            verdict == row_verdict(status_ok, dad)
        IN  /\ now' = now + d
            /\ a_queries' = i
            /\ a_polled' = TRUE
            /\ a_failed' = IF status_ok THEN a_failed ELSE {a_rows[i]}
            /\ a_seen' = IF status_ok THEN Append(a_seen, dad) ELSE a_seen
            /\ CASE verdict.kind = "NotReady" ->
                      /\ wk_pc' = "sleep"
                      /\ a_chan' = a_chan
                 [] verdict.kind = "Preferred" /\ i < Len(a_rows) ->
                      /\ wk_pc' = "query"
                      /\ a_chan' = a_chan
                 [] verdict.kind = "Preferred" /\ i >= Len(a_rows) ->
                      /\ wk_pc' = "finished"
                      /\ a_chan' = OkResult
                 [] OTHER ->
                      /\ wk_pc' = "finished"
                      /\ a_chan' = verdict
    /\ UNCHANGED <<a_table, a_rows, a_pc, a_result, deadline, a_retried>>
    /\ UNCHANGED nonAddrVars

\* Line 311: thread::sleep(DAD_CHECK_INTERVAL) returns after at least the
\* interval.
WorkerSleep ==
    /\ wk_pc = "sleep"
    /\ \E k \in 1..MaxOversleep : now' = now + k * DAD_CHECK_INTERVAL
    /\ a_retried' = TRUE
    /\ wk_pc' = "loop"
    /\ UNCHANGED <<a_table, a_rows, a_pc, a_result, a_chan, deadline, a_polled,
                   a_queries, a_failed, a_seen>>
    /\ UNCHANGED nonAddrVars

\* Lines 316-318: the worker thread ends before `tx.send` is reached (the
\* closure unwinds), so `tx` is dropped without a value having been sent.
WorkerUnwind ==
    /\ wk_pc \in {"spawned", "loop", "query", "sleep"}
    /\ wk_pc' = "unwound"
    /\ UNCHANGED <<a_table, a_rows, a_pc, a_result, a_chan, now, deadline, a_polled,
                   a_queries, a_retried, a_failed, a_seen>>
    /\ UNCHANGED nonAddrVars

\* AddrReturn completing only on a sent value: a dropped sender does not wake
\* the caller.
AddrReturnOnlySent ==
    /\ a_pc = "awaiting"
    /\ wk_pc = "finished"
    /\ a_result' = a_chan
    /\ a_pc' = "returned"
    /\ UNCHANGED <<a_table, a_rows, wk_pc, a_chan, now, deadline, a_polled, a_queries,
                   a_retried, a_failed, a_seen>>
    /\ UNCHANGED nonAddrVars

\* Line 319: rx.await yields the worker's result, which is returned, or an
\* error when the sender was dropped unsent, mapped to UnicastSenderDropped.
AddrReturn ==
    /\ a_pc = "awaiting"
    /\ wk_pc \in {"finished", "unwound"}
    /\ a_result' = IF a_chan = NoResult
                      THEN Res("UnicastSenderDropped", NoDad)
                      ELSE a_chan
    /\ a_pc' = "returned"
    /\ UNCHANGED <<a_table, a_rows, wk_pc, a_chan, now, deadline, a_polled, a_queries,
                   a_retried, a_failed, a_seen>>
    /\ UNCHANGED nonAddrVars

AddrNext ==
    \/ DadChange
    \/ AddrStart
    \/ WorkerStart
    \/ WorkerLoopTest
    \/ WorkerQuery
    \/ WorkerSleep
    \/ WorkerUnwind
    \/ AddrReturn

(***************************************************************************)
(* InterfaceChangeNotifier: windows.rs, notify_ip_interface_change,        *)
(* inner_callback and Drop for IpNotifierHandle                            *)
(***************************************************************************)
CallbackThreads == 1..MaxCallbackThreads

NotInit ==
    /\ n_pc = "start"
    /\ n_result = "pending"
    /\ n_token = FALSE
    /\ os_reg = FALSE
    /\ cb = [t \in CallbackThreads |-> "idle"]
    /\ mutex_holder = 0
    /\ poisoned = FALSE
    /\ mem = "live"
    /\ n_started = 0
    /\ n_runs = 0
    /\ runs_poisoned = 0
    /\ cancel_token = 0
    /\ cancel_null = 0
    /\ cancel_overlap = FALSE
    /\ uaf = FALSE
    /\ aborted = FALSE

\* No notifier is being registered.
NotIdle ==
    /\ n_pc = "idle"
    /\ n_result = "pending"
    /\ n_token = FALSE
    /\ os_reg = FALSE
    /\ cb = [t \in CallbackThreads |-> "idle"]
    /\ mutex_holder = 0
    /\ poisoned = FALSE
    /\ mem = "live"
    /\ n_started = 0
    /\ n_runs = 0
    /\ runs_poisoned = 0
    /\ cancel_token = 0
    /\ cancel_null = 0
    /\ cancel_overlap = FALSE
    /\ uaf = FALSE
    /\ aborted = FALSE

\* Drop::drop, lines 111-113: CancelMibChangeNotify2(self.handle) is called;
\* the OS starts no further callback for the token and the call blocks
\* while callbacks are running.
CancelRequested ==
    /\ os_reg' = FALSE
    /\ cancel_token' = IF n_token' THEN cancel_token + 1 ELSE cancel_token
    /\ cancel_null' = IF n_token' THEN cancel_null ELSE cancel_null + 1
    /\ cancel_overlap' = (\E t \in CallbackThreads : cb[t] # "idle")

\* notify_ip_interface_change, lines 134-153: the context is boxed and
\* NotifyIpInterfaceChange is called; on an error status the box is dropped.
NotifRegister ==
    /\ ~aborted
    /\ n_pc = "start"
    /\ \E status_ok \in BOOLEAN :
        IF status_ok
           THEN /\ n_token' = TRUE
                /\ os_reg' = TRUE
                /\ n_result' = "Ok"
                /\ n_pc' = "live"
                /\ UNCHANGED <<cancel_token, cancel_null, cancel_overlap>>
           ELSE /\ n_token' = FALSE
                /\ n_result' = "Err"
                /\ n_pc' = "cancelling"
                /\ CancelRequested
    /\ UNCHANGED <<cb, mutex_holder, poisoned, mem, n_started, n_runs, runs_poisoned,
                   uaf, aborted>>
    /\ UNCHANGED nonNotVars

\* Mutant of NotifDrop: the handle's storage is released without cancelling
\* the registration.
NotifDropNoCancel ==
    /\ ~aborted
    /\ n_pc = "live"
    /\ n_pc' = "freed"
    /\ mem' = "freed"
    /\ UNCHANGED <<n_result, n_token, os_reg, cb, mutex_holder, poisoned, n_started,
                   n_runs, runs_poisoned, cancel_token, cancel_null, cancel_overlap,
                   uaf, aborted>>
    /\ UNCHANGED nonNotVars

\* The owner drops the handle: Drop::drop runs first (lines 110-114).
NotifDrop ==
    /\ ~aborted
    /\ n_pc = "live"
    /\ n_pc' = "cancelling"
    /\ n_token' = n_token
    /\ CancelRequested
    /\ UNCHANGED <<n_result, cb, mutex_holder, poisoned, mem, n_started, n_runs,
                   runs_poisoned, uaf, aborted>>
    /\ UNCHANGED nonNotVars

\* CancelMibChangeNotify2 returns once no callback of the registration runs.
NotifCancelReturn ==
    /\ ~aborted
    /\ n_pc = "cancelling"
    /\ \A t \in CallbackThreads : cb[t] = "idle"
    /\ n_pc' = "cancelled"
    /\ UNCHANGED <<n_result, n_token, os_reg, cb, mutex_holder, poisoned, mem,
                   n_started, n_runs, runs_poisoned, cancel_token, cancel_null,
                   cancel_overlap, uaf, aborted>>
    /\ UNCHANGED nonNotVars

\* After Drop::drop the fields (the mutex and the boxed closure) and the box
\* itself are released.
NotifFree ==
    /\ ~aborted
    /\ n_pc = "cancelled"
    /\ n_pc' = "freed"
    /\ mem' = "freed"
    /\ UNCHANGED <<n_result, n_token, os_reg, cb, mutex_holder, poisoned, n_started,
                   n_runs, runs_poisoned, cancel_token, cancel_null, cancel_overlap,
                   uaf, aborted>>
    /\ UNCHANGED nonNotVars

\* The OS starts inner_callback on one of its threads (line 121: the context
\* pointer is dereferenced).
CbEnter ==
    /\ ~aborted
    /\ os_reg
    /\ n_started < MaxInvocations
    /\ \E t \in CallbackThreads :
        /\ cb[t] = "idle"
        /\ cb' = [cb EXCEPT ![t] = "entered"]
    /\ n_started' = n_started + 1
    /\ uaf' = (uaf \/ mem = "freed")
    /\ UNCHANGED <<n_pc, n_result, n_token, os_reg, mutex_holder, poisoned, mem, n_runs,
                   runs_poisoned, cancel_token, cancel_null, cancel_overlap, aborted>>
    /\ UNCHANGED nonNotVars

\* Mutant of CbLock: a poisoned mutex is recovered (into_inner of the poison
\* error) and the closure is run all the same.
CbLockIgnorePoison ==
    /\ ~aborted
    /\ mutex_holder = 0
    /\ \E t \in CallbackThreads :
        /\ cb[t] = "entered"
        /\ mutex_holder' = t
        /\ cb' = [cb EXCEPT ![t] = "running"]
    /\ uaf' = (uaf \/ mem = "freed")
    /\ UNCHANGED <<n_pc, n_result, n_token, os_reg, poisoned, mem, n_started, n_runs,
                   runs_poisoned, cancel_token, cancel_null, cancel_overlap, aborted>>
    /\ UNCHANGED nonNotVars

\* inner_callback, lines 122-125: callback.lock().expect(..): the mutex is
\* taken, or, when it is poisoned, the invocation panics without running the
\* closure; a panic in an extern "system" function aborts the process or
\* unwinds into the OS, depending on the build.
CbLock ==
    /\ ~aborted
    /\ mutex_holder = 0
    /\ \E t \in CallbackThreads :
        /\ cb[t] = "entered"
        /\ IF poisoned
              THEN /\ cb' = [cb EXCEPT ![t] = "idle"]
                   /\ aborted' \in BOOLEAN
                   /\ mutex_holder' = mutex_holder
              ELSE /\ mutex_holder' = t
                   /\ cb' = [cb EXCEPT ![t] = "running"]
                   /\ aborted' = aborted
    /\ uaf' = (uaf \/ mem = "freed")
    /\ UNCHANGED <<n_pc, n_result, n_token, os_reg, poisoned, mem, n_started, n_runs,
                   runs_poisoned, cancel_token, cancel_null, cancel_overlap>>
    /\ UNCHANGED nonNotVars

\* inner_callback, line 125: the closure runs under the mutex and returns,
\* or panics, which poisons the mutex as its guard is dropped.
CbRun ==
    /\ ~aborted
    /\ \E t \in CallbackThreads, panics \in BOOLEAN :
        /\ cb[t] = "running"
        /\ mutex_holder = t
        /\ cb' = [cb EXCEPT ![t] = "idle"]
        /\ mutex_holder' = 0
        /\ IF panics
              THEN /\ poisoned' = TRUE
                   /\ aborted' \in BOOLEAN
              ELSE UNCHANGED <<poisoned, aborted>>
    /\ n_runs' = n_runs + 1
    /\ runs_poisoned' = IF poisoned THEN runs_poisoned + 1 ELSE runs_poisoned
    /\ uaf' = (uaf \/ mem = "freed")
    /\ UNCHANGED <<n_pc, n_result, n_token, os_reg, mem, n_started, cancel_token,
                   cancel_null, cancel_overlap>>
    /\ UNCHANGED nonNotVars

NotNext ==
    \/ NotifRegister
    \/ NotifDrop
    \/ NotifCancelReturn
    \/ NotifFree
    \/ CbEnter
    \/ CbLock
    \/ CbRun

(***************************************************************************)
(* AddressCodec: windows.rs, lines 92-98 and 366-452.  A SOCKADDR_INET is   *)
(* modelled as its 28 bytes in memory; the target is little-endian, as     *)
(* every Windows target is.                                                *)
(***************************************************************************)
\* ws2def AF_UNSPEC: no family.
AF_UNSPEC == 0

\* A u16 is a number; a u32 is written as its four base-256 digits, the most
\* significant first (0x0102030a is <<1, 2, 3, 10>>), as its values exceed
\* the integers of the model checker.
u32(d3, d2, d1, d0) == <<d3, d2, d1, d0>>

\* The bytes of a u16 and of a u32 in memory, and the value such bytes hold.
u16_bytes(v) == <<v % 256, v \div 256>>
u32_bytes(v) == <<v[4], v[3], v[2], v[1]>>
u16_at(buf, off) == buf[off + 1] + 256 * buf[off + 2]
u32_at(buf, off) == u32(buf[off + 4], buf[off + 3], buf[off + 2], buf[off + 1])

\* u16::to_be, u16::from_be and u32::to_be on a little-endian target: the
\* bytes are swapped.
u16_to_be(v) == (v % 256) * 256 + v \div 256
u16_from_be(v) == (v % 256) * 256 + v \div 256
u32_to_be(v) == u32(v[4], v[3], v[2], v[1])

\* `n` bytes of `buf` from byte offset `off`, and `buf` with `bytes` stored
\* at byte offset `off`.
bytes_at(buf, off, n) == [i \in 1..n |-> buf[off + i]]
store(buf, off, bytes) ==
    [i \in 1..Len(buf) |->
        IF i > off /\ i <= off + Len(bytes) THEN bytes[i - off] ELSE buf[i]]

\* mem::zeroed::<SOCKADDR_INET>(), line 405.
zeroed == [i \in 1..28 |-> 0]

\* std::net: an Ipv4Addr is its four octets a.b.c.d, an Ipv6Addr its eight
\* segments.  Ipv4Addr::from(u32), Ipv6Addr::octets and Ipv6Addr::from([u8; 16]).
Ipv4Addr_from_u32(v) == <<v[1], v[2], v[3], v[4]>>
Ipv6Addr_octets(segments) ==
    [i \in 1..16 |->
        IF i % 2 = 1 THEN segments[(i + 1) \div 2] \div 256
                     ELSE segments[i \div 2] % 256]
Ipv6Addr_from_octets(octets) ==
    [k \in 1..8 |-> octets[2 * k - 1] * 256 + octets[2 * k]]

SocketAddrV4(ip, port) == [v |-> "V4", ip |-> ip, port |-> port]
SocketAddrV6(ip, port, flowinfo, scope_id) ==
    [v |-> "V6", ip |-> ip, port |-> port, flowinfo |-> flowinfo, scope_id |-> scope_id]

\* Result values of lines 92-98 and 436-452.
OkValue(x) == [ok |-> TRUE, val |-> x]
UnknownAddressFamily(family) ==
    [ok |-> FALSE, err |-> "UnknownAddressFamily", family |-> family]
NoValue == [ok |-> FALSE, err |-> "pending", family |-> 0]

\* Lines 92-98.  `family as i32` keeps the value of a u16.
try_from_af_family(family) ==
    CASE family = AF_INET -> OkValue("Ipv4")
      [] family = AF_INET6 -> OkValue("Ipv6")
      [] OTHER -> UnknownAddressFamily(family)

\* Lines 366-377: the octets are copied into the four bytes of S_addr.
inaddr_from_ipaddr(addr) == [i \in 1..4 |-> addr[i]]

\* How a call ends: it returns a value, or the process is killed by a signal.
Returned(v) == [kind |-> "returned", val |-> v]
Killed(sig) == [kind |-> sig, val |-> <<>>]

\* Lines 380-391.  Both pointers of the copy of lines 384-388 are pointers to
\* [u8; 16] and the count is 16, so 256 bytes are copied from the 16 of
\* `addr_octets` to the 16 of `in_addr`: undefined behaviour for every
\* address.  What a build makes of it: the call returns with the octets in
\* the sixteen bytes of the IN6_ADDR, the precondition check of the copy
\* aborts the process, or the copy runs off the stack.
in6addr_from_ipaddr(addr) ==
    {Returned(Ipv6Addr_octets(addr)), Killed("SIGABRT"), Killed("SIGSEGV")}

\* Lines 394-396: S_addr is read as a u32, byte-swapped, and converted.
ipaddr_from_inaddr(in_addr) == Ipv4Addr_from_u32(u32_to_be(u32_at(in_addr, 0)))

\* Lines 399-401.
ipaddr_from_in6addr(in_addr) == Ipv6Addr_from_octets(in_addr)

\* Lines 404-433.  SOCKADDR_IN: sin_family at byte 0, sin_port at 2, sin_addr
\* at 4.  SOCKADDR_IN6: sin6_family at 0, sin6_port at 2, sin6_flowinfo at 4,
\* sin6_addr at 8, sin6_scope_id at 24.  si_family is at byte 0 of the union.
\* The IPv6 branch ends as its call of in6addr_from_ipaddr (line 426) does.
inet_sockaddr_from_socketaddr(addr) ==
    IF addr.v = "V4"
       THEN LET s1 == store(zeroed, 0, u16_bytes(AF_INET))
                s2 == store(s1, 0, u16_bytes(AF_INET))
                s3 == store(s2, 2, u16_bytes(u16_to_be(addr.port)))
            IN  {Returned(store(s3, 4, inaddr_from_ipaddr(addr.ip)))}
       ELSE LET s1 == store(zeroed, 0, u16_bytes(AF_INET6))
                s2 == store(s1, 0, u16_bytes(AF_INET6))
                s3 == store(s2, 2, u16_bytes(u16_to_be(addr.port)))
            IN  {IF in6.kind = "returned"
                    THEN LET s4 == store(s3, 8, in6.val)
                             s5 == store(s4, 4, u32_bytes(addr.flowinfo))
                         IN  Returned(store(s5, 24, u32_bytes(addr.scope_id)))
                    ELSE in6 : in6 \in in6addr_from_ipaddr(addr.ip)}

\* try_socketaddr_from_inet_sockaddr matching on the low byte of the tag.
try_socketaddr_low_byte(addr) ==
    LET family == addr[1] IN
    CASE family = AF_INET ->
            OkValue(SocketAddrV4(ipaddr_from_inaddr(bytes_at(addr, 4, 4)),
                                 u16_from_be(u16_at(addr, 2))))
      [] family = AF_INET6 ->
            OkValue(SocketAddrV6(ipaddr_from_in6addr(bytes_at(addr, 8, 16)),
                                 u16_from_be(u16_at(addr, 2)),
                                 u32_at(addr, 4),
                                 u32_at(addr, 24)))
      [] OTHER -> UnknownAddressFamily(family)

\* Lines 436-452.
try_socketaddr_from_inet_sockaddr(addr) ==
    LET family == u16_at(addr, 0) IN
    CASE family = AF_INET ->
            OkValue(SocketAddrV4(ipaddr_from_inaddr(bytes_at(addr, 4, 4)),
                                 u16_from_be(u16_at(addr, 2))))
      [] family = AF_INET6 ->
            OkValue(SocketAddrV6(ipaddr_from_in6addr(bytes_at(addr, 8, 16)),
                                 u16_from_be(u16_at(addr, 2)),
                                 u32_at(addr, 4),
                                 u32_at(addr, 24)))
      [] OTHER -> UnknownAddressFamily(family)

\* The inputs: the addresses of the unit tests (lines 460 and 469-474) and
\* addresses made of extreme and of asymmetric values.
Octets == {0, 1, 255}
Ports == {0, 1, 255, 256, 1234, 65535}
Ipv4Addrs == [1..4 -> Octets] \cup {<<1, 2, 3, 4>>, <<192, 168, 1, 254>>}
Ipv6Addrs ==
    {<<1, 2, 3, 4, 5, 6, 7, 8>>,
     <<0, 0, 0, 0, 0, 0, 0, 0>>,
     <<0, 0, 0, 0, 0, 0, 0, 1>>,
     <<65152, 0, 0, 0, 258, 772, 1286, 65535>>,
     <<65535, 65535, 65535, 65535, 65535, 65535, 65535, 65535>>}
FlowInfos == {u32(0, 0, 0, 0), u32(0, 0, 0, 10), u32(1, 2, 3, 4),
              u32(255, 255, 255, 255)}
ScopeIds == {u32(0, 0, 0, 0), u32(0, 0, 0, 11), u32(255, 255, 255, 255)}
SocketAddrs ==
    {SocketAddrV4(ip, port) : ip \in Ipv4Addrs, port \in Ports}
        \cup {SocketAddrV6(a[1], a[2], a[3], a[4]) :
                a \in Ipv6Addrs \X Ports \X FlowInfos \X ScopeIds}

\* Family tags: the supported ones, AF_UNSPEC, their neighbours, tags that
\* agree with a supported one in the low byte, and the largest u16.
FamilyTags == {AF_UNSPEC, 1, AF_INET, 3, 22, AF_INET6, 24, 258, 279, 5888, 65535}

CodecInit ==
    /\ c_pc = "start"
    /\ c_addr \in SocketAddrs
    /\ c_native = zeroed
    /\ c_src = "none"
    /\ c_decoded = NoValue
    /\ c_tag = AF_UNSPEC
    /\ c_family = NoValue

\* No conversion is in progress.
CodecIdle ==
    /\ c_pc = "idle"
    /\ c_addr = SocketAddrV4(<<0, 0, 0, 0>>, 0)
    /\ c_native = zeroed
    /\ c_src = "none"
    /\ c_decoded = NoValue
    /\ c_tag = AF_UNSPEC
    /\ c_family = NoValue

\* A call of inet_sockaddr_from_socketaddr(c_addr): it returns the
\* SOCKADDR_INET or the process is killed.
CodecEncode ==
    /\ c_pc = "start"
    /\ \E out \in inet_sockaddr_from_socketaddr(c_addr) :
        IF out.kind = "returned"
           THEN /\ c_native' = out.val
                /\ c_pc' = "native"
           ELSE /\ c_native' = c_native
                /\ c_pc' = out.kind
    /\ c_src' = "encode"
    /\ UNCHANGED <<c_addr, c_decoded, c_tag, c_family>>
    /\ UNCHANGED nonCodecVars

\* The OS hands over a SOCKADDR_INET: the bytes of some address, laid out as
\* a returning inet_sockaddr_from_socketaddr lays them out, under any family
\* tag.
CodecFromOs ==
    /\ c_pc = "start"
    /\ \E tag \in FamilyTags, out \in inet_sockaddr_from_socketaddr(c_addr) :
        /\ out.kind = "returned"
        /\ c_native' = store(out.val, 0, u16_bytes(tag))
    /\ c_src' = "os"
    /\ c_pc' = "native"
    /\ UNCHANGED <<c_addr, c_decoded, c_tag, c_family>>
    /\ UNCHANGED nonCodecVars

\* A call of try_socketaddr_from_inet_sockaddr(c_native).
CodecDecode ==
    /\ c_pc = "native"
    /\ c_decoded' = try_socketaddr_from_inet_sockaddr(c_native)
    /\ c_pc' = "decoded"
    /\ UNCHANGED <<c_addr, c_native, c_src, c_tag, c_family>>
    /\ UNCHANGED nonCodecVars

\* A call of AddressFamily::try_from_af_family on some tag.
CodecFamily ==
    /\ c_pc \in {"start", "native", "decoded"}
    /\ c_family = NoValue
    /\ \E tag \in FamilyTags :
        /\ c_tag' = tag
        /\ c_family' = try_from_af_family(tag)
    /\ UNCHANGED <<c_pc, c_addr, c_native, c_src, c_decoded>>
    /\ UNCHANGED nonCodecVars

CodecNext ==
    \/ CodecEncode
    \/ CodecFromOs
    \/ CodecDecode
    \/ CodecFamily

(***************************************************************************)
(* Specifications.                                                         *)
(***************************************************************************)
Init ==
    /\ MonInit
    /\ WaitIdle
    /\ AddrIdle
    /\ NotIdle
    /\ CodecIdle
Next == MonNext
Spec == Init /\ [][Next]_vars

\* The executor runs a task that can make progress; the routing collaborator,
\* the sender's owner and the handle's user are under no obligation.
FairSpec ==
    /\ Init
    /\ [][Next]_vars
    /\ WF_vars(SpawnProbe)
    /\ WF_vars(SpawnListen)
    /\ WF_vars(TaskNext)
    /\ WF_vars(TaskRecompute)

\* wait_for_interfaces alone.
WaiterInit ==
    /\ MonIdle
    /\ WaitInit
    /\ AddrIdle
    /\ NotIdle
    /\ CodecIdle
WaiterSpec == WaiterInit /\ [][WaitNext]_vars

\* wait_for_addresses alone.
AddrSpecInit ==
    /\ MonIdle
    /\ WaitIdle
    /\ AddrInit
    /\ NotIdle
    /\ CodecIdle
AddrSpec == AddrSpecInit /\ [][AddrNext]_vars

\* The same with the scheduling the code relies on: the executor runs the
\* caller, the OS runs the worker thread, and a sleep returns.
AddrFairSpec ==
    /\ AddrSpecInit
    /\ [][AddrNext]_vars
    /\ WF_vars(AddrStart)
    /\ WF_vars(WorkerStart)
    /\ WF_vars(WorkerLoopTest)
    /\ WF_vars(WorkerQuery)
    /\ WF_vars(WorkerSleep)
    /\ WF_vars(AddrReturn)

\* One notifier registration, its callbacks and its destruction.
NotifierInit ==
    /\ MonIdle
    /\ WaitIdle
    /\ AddrIdle
    /\ NotInit
    /\ CodecIdle
NotifierSpec == NotifierInit /\ [][NotNext]_vars

\* The address codec alone.
CodecSpecInit ==
    /\ MonIdle
    /\ WaitIdle
    /\ AddrIdle
    /\ NotIdle
    /\ CodecInit
CodecSpec == CodecSpecInit /\ [][CodecNext]_vars

(***************************************************************************)
(* Claims about the connectivity monitor.                                  *)
(***************************************************************************)
\* The events a deduplicating observer of the computed states h emits: every
\* state that differs from the one computed before it.
RECURSIVE Transitions(_)
Transitions(h) ==
    IF Len(h) < 2 THEN <<>>
    ELSE LET front == SubSeq(h, 1, Len(h) - 1) IN
         IF h[Len(h)] # h[Len(h) - 1]
            THEN Append(Transitions(front), h[Len(h)])
            ELSE Transitions(front)

\* C1: the events sent are exactly the recomputed states that differ from the
\* state stored before them, and the stored state is the last computed one;
\* recomputations [online, online, offline, offline, online] from online
\* send exactly 2 events.
C1_Dedup ==
    /\ Len(history) > 0 =>
          /\ sent = Transitions(history)
          /\ is_offline = history[Len(history)]
    /\ history = <<FALSE, FALSE, FALSE, TRUE, TRUE, FALSE>> => Len(sent) = 2

C1_Witness ==
    /\ history = <<FALSE, FALSE, FALSE, TRUE, TRUE, FALSE>>
    /\ sent = <<TRUE, FALSE>>

\* C5 as stated: once the sender's only strong owner is gone, the spawned
\* task eventually terminates.
C5_EventuallyTerminates ==
    (task_pc # "none" /\ ~sender_strong) ~> (task_pc = "done")

\* C5 amended: with the strong owner gone, the task terminates at the next
\* event it takes from the listener (or at the stream's end), without
\* recomputing or sending, and stays terminated; it does terminate whenever
\* such an event is buffered or the stream has ended.
C5_TerminatesOnNextEvent ==
    /\ [][/\ (task_pc = "await_event" /\ ~sender_strong /\ task_pc' # task_pc) =>
              (task_pc' = "done" /\ sent' = sent /\ history' = history)
          /\ (task_pc = "done" => task_pc' = "done")]_vars
    /\ (task_pc \in {"await_event", "computing"} /\ ~sender_strong
           /\ (pending > 0 \/ ~listener_open))
         ~> (task_pc = "done")

C5_Witness ==
    /\ task_pc = "done"
    /\ ~sender_strong
    /\ listener_open
    /\ pending > 0

\* C6: a recomputation whose lookup fails leaves the stored state online and
\* sends IsOffline(false) exactly if the stored state was offline; an
\* is_offline() call whose lookup fails returns false.
C6_ErrorIsOnline ==
    /\ [](q_probe = "error" => q_ret = FALSE)
    /\ [][(task_pc = "computing" /\ task_pc' # "computing" /\ task_probe' = "error") =>
             /\ is_offline' = FALSE
             /\ sent' = IF is_offline THEN Append(sent, FALSE) ELSE sent]_vars

C6_Witness ==
    /\ task_probe = "error"
    /\ task_pc = "await_event"
    /\ Len(history) >= 2
    /\ history[Len(history) - 1] = TRUE
    /\ is_offline = FALSE
    /\ q_probe = "error"

\* C7: a step that performs an is_offline() call changes neither the loop's
\* stored state nor the events sent nor the task's position, and its
\* return value is a boolean.
C7_QueryFrame ==
    /\ [](q_ret \in BOOLEAN)
    /\ [][(q_probe' # q_probe \/ q_ret' # q_ret) =>
             /\ is_offline' = is_offline
             /\ sent' = sent
             /\ history' = history
             /\ task_pc' = task_pc]_vars

C7_Witness ==
    /\ task_pc = "computing"
    /\ q_probe = "noroute"
    /\ q_ret = TRUE
    /\ is_offline = FALSE

\* C8: when the initial lookup fails, spawn_monitor returns the error: no
\* handle exists (no is_offline() call), no listener, no task, no event.
C8_InitErrorPropagates ==
    init_probe = "error" =>
        /\ spawn_pc = "failed"
        /\ spawn_result = "Err"
        /\ task_pc = "none"
        /\ ~listener_open
        /\ sent = <<>>
        /\ q_probe = "none"

C8_Witness ==
    /\ init_probe = "error"
    /\ spawn_result = "Err"

\* C20: once the initial state is computed, the stored state is the payload
\* of the last IsOffline event sent, or the initial state when none was sent;
\* two events sent in a row carry different values and the first event's
\* value differs from the initial state.
C20_StoredIsLastEmitted ==
    Len(history) > 0 =>
        /\ is_offline = (IF sent = <<>> THEN history[1] ELSE sent[Len(sent)])
        /\ \A i \in 1..(Len(sent) - 1) : sent[i] # sent[i + 1]
        /\ sent # <<>> => sent[1] # history[1]

\* From an initial online state the task sent offline, online, offline and
\* stores offline.
C20_Witness ==
    /\ Len(history) > 0
    /\ history[1] = FALSE
    /\ sent = <<TRUE, FALSE, TRUE>>
    /\ is_offline = TRUE
    /\ task_pc = "await_event"

(***************************************************************************)
(* Claims about wait_for_interfaces.                                       *)
(***************************************************************************)
\* Every requested family has an entry on the awaited interface.
RequestedPresent ==
    /\ w_ipv4 => <<w_luid, AF_INET>> \in iface
    /\ w_ipv6 => <<w_luid, AF_INET6>> \in iface

\* C2: no lost wakeup: the call is never left suspended on rx.await, with
\* its signal unsent, when every requested family is present on the
\* interface and no notification is outstanding (from such a state nothing
\* resolves the call short of a further change of the interface table).
C2_NoLostWakeup ==
    ~(/\ w_pc = "await"
      /\ RequestedPresent
      /\ inflight = EmptyBag
      /\ signalled = 0)

\* C9: when the existence check made after subscribing finds every requested
\* family, the call returns Ok without ever reaching rx.await and without a
\* signal from the closure being needed, and once it has returned the
\* registration is cancelled.
C9_FastPath ==
    (w_seen4 \in {"skipped", "present"} /\ w_seen6 \in {"skipped", "present"}) =>
        /\ w_pc \in {"return", "done"}
        /\ w_result = "Ok"
        /\ ~w_awaited
        /\ w_pc = "done" => (~registered /\ inflight = EmptyBag)

C9_Witness ==
    /\ w_ipv4 /\ w_ipv6
    /\ w_seen4 = "present" /\ w_seen6 = "present"
    /\ w_pc = "done"
    /\ w_result = "Ok"
    /\ ~registered
    /\ signalled = 0
    /\ last_event = NoEvent

\* A step that delivers a notification to the closure.
DeliverStep ==
    /\ registered /\ registered'
    /\ BagCardinality(inflight') = BagCardinality(inflight) - 1

\* The notification is an Added one, for the awaited interface, for a
\* requested family the closure has not yet marked as found.
Satisfying(e) ==
    /\ e.kind = MibAddInstance
    /\ e.luid = w_luid
    /\ \/ e.family = AF_INET /\ ~found_ipv4
       \/ e.family = AF_INET6 /\ ~found_ipv6

\* C10: a delivered notification that is not an Added one for the awaited
\* interface and a still-missing family leaves the closure's state alone and
\* signals nothing; the signal is only ever sent after an Added notification
\* for the awaited interface was delivered for each requested family, and
\* the call only returns from rx.await after the signal.
C10_OnlyMatchingAdded ==
    /\ [][(DeliverStep /\ ~Satisfying(last_event')) =>
            UNCHANGED <<found_ipv4, found_ipv6, tx_some, signalled, w_pc, w_result>>]_vars
    /\ [](signalled > 0 =>
            /\ w_ipv4 => AF_INET \in added_seen
            /\ w_ipv6 => AF_INET6 \in added_seen)
    /\ []((w_awaited /\ w_result = "Ok") => signalled > 0)

C10_Witness ==
    /\ w_ipv4 /\ w_ipv6
    /\ w_pc = "await"
    /\ last_event.luid = "eth"
    /\ last_event.kind = MibAddInstance
    /\ added_seen = {AF_INET}
    /\ found_ipv4 /\ ~found_ipv6
    /\ signalled = 0

\* C16: the closure sends the completion signal at most once, and only with
\* both flags set and its sender taken; a notification delivered when both
\* flags are set changes nothing of the closure's state and sends nothing.
C16_SignalAtMostOnce ==
    /\ [](signalled <= 1)
    /\ [](signalled = 1 => (found_ipv4 /\ found_ipv6 /\ ~tx_some))
    /\ [][(DeliverStep /\ found_ipv4 /\ found_ipv6) =>
            UNCHANGED <<found_ipv4, found_ipv6, tx_some, signalled>>]_vars

\* After the signal was sent (which an Added notification does), a Deleted
\* notification for the awaited interface was delivered to the closure.
C16_Witness ==
    /\ signalled = 1
    /\ registered
    /\ last_event # NoEvent
    /\ last_event.kind = MibDeleteInstance
    /\ last_event.luid = w_luid

(***************************************************************************)
(* Claims about wait_for_addresses.                                        *)
(***************************************************************************)
\* The DAD states that are neither Tentative nor Preferred.
FailureStates == DadStates \ {IpDadStateTentative, IpDadStatePreferred}

\* The candidate rows that are in a failure state.
FailedRows == {i \in 1..Len(a_rows) : a_table[a_rows[i]].dad \in FailureStates}

\* A step in which the worker queries a row.
QueryStep ==
    /\ wk_pc = "query"
    /\ a_queries' = a_queries + 1

\* A step in which a poll round ends: by the `break` of line 301 or by a
\* `return`.
RoundEndStep ==
    /\ QueryStep
    /\ wk_pc' \in {"sleep", "finished"}

\* C3: a poll round (all of whose queries succeed) that ends while some
\* candidate address is in a failure state ends the wait: the worker sends a
\* DadStateError made from the state of such an address and polls no
\* further.
C3_FailureStateFailsRound ==
    [][(RoundEndStep /\ a_failed' = {} /\ FailedRows # {}) =>
         /\ wk_pc' = "finished"
         /\ a_chan'.kind = "DadStateError"
         /\ \E i \in FailedRows :
                a_chan'.dad = DadStateErrorFrom(a_table[a_rows[i]].dad)]_vars

\* C11: when the table that was read has no row of the interface, the call
\* returns NoUnicastAddress, no worker was started and no address was polled;
\* and NoUnicastAddress is returned in that case only.
C11_EmptyFailsWithoutPolling ==
    /\ (/\ a_pc \in {"awaiting", "returned"}
        /\ filter_rows(a_table, 1) = <<>>
        /\ a_result.kind # "ObtainUnicastAddress") =>
          /\ a_pc = "returned"
          /\ a_result = Res("NoUnicastAddress", NoDad)
          /\ wk_pc = "none"
          /\ a_chan = NoResult
          /\ ~a_polled
          /\ a_queries = 0
    /\ a_result.kind = "NoUnicastAddress" => filter_rows(a_table, 1) = <<>>

\* The call failed with NoUnicastAddress on a table that has rows, all of
\* other interfaces.
C11_Witness ==
    /\ a_pc = "returned"
    /\ a_result.kind = "NoUnicastAddress"
    /\ Len(a_table) = MaxRows
    /\ wk_pc = "none"

\* C12: the worker sends success only at the query of the last candidate
\* address of a poll round, every candidate having been queried in that
\* round and each query having returned Preferred (a query returns the state
\* the address has when it is made); the caller returns success only when
\* the worker sent it; and in the first round a query that returns Preferred
\* leads to the next query or, at the last candidate, to success, without a
\* sleep or a retry.
C12_SuccessOnlyAllPreferred ==
    [][/\ (a_chan'.kind = "Ok" /\ a_chan.kind # "Ok") =>
            /\ RoundEndStep
            /\ a_queries' = Len(a_rows)
            /\ a_failed' = {}
            /\ a_seen' = [i \in 1..Len(a_rows) |-> IpDadStatePreferred]
       /\ (QueryStep /\ Len(a_seen') > Len(a_seen)) =>
            a_seen' = Append(a_seen, a_table[a_rows[a_queries']].dad)
       /\ (a_result'.kind = "Ok" /\ a_result.kind # "Ok") => a_chan.kind = "Ok"
       /\ (/\ QueryStep
           /\ ~a_retried
           /\ a_seen' = [i \in 1..a_queries' |-> IpDadStatePreferred]) =>
            /\ ~a_retried'
            /\ IF a_queries' = Len(a_rows)
                  THEN wk_pc' = "finished" /\ a_chan' = OkResult
                  ELSE wk_pc' = "query" /\ a_chan' = NoResult]_vars

\* The call succeeded in its first round, having queried every row of a
\* table with MaxRows addresses of the interface.
C12_Witness ==
    /\ a_pc = "returned"
    /\ a_result = OkResult
    /\ Len(a_rows) = MaxRows
    /\ a_queries = MaxRows
    /\ ~a_retried

\* The candidate rows that are Tentative.
TentativeRows == {i \in 1..Len(a_rows) : a_table[a_rows[i]].dad = IpDadStateTentative}

\* C13: the worker, once spawned, comes to an end.  A query that returns
\* Tentative ends the round with nothing sent and the worker goes to sleep;
\* the sleep lasts at least the poll interval and leads back to the loop
\* test.  A poll round begins only at a loop test made before the deadline;
\* a loop test made at or after the deadline queries nothing and sends
\* DeviceReadyTimeout, which is sent in no other way and only after a sleep.
C13_WorkerTerminates ==
    /\ (wk_pc = "spawned") ~> (wk_pc \in {"finished", "unwound"})
    /\ [][(QueryStep /\ Len(a_seen') > Len(a_seen)
             /\ a_table[a_rows[a_queries']].dad = IpDadStateTentative) =>
            /\ wk_pc' = "sleep"
            /\ a_chan' = NoResult]_vars
    /\ [][(wk_pc = "sleep" /\ wk_pc' # "sleep") =>
            /\ wk_pc' \in {"loop", "unwound"}
            /\ wk_pc' = "loop" => (now' >= now + DAD_CHECK_INTERVAL /\ a_retried')]_vars
    /\ [][(wk_pc # "query" /\ wk_pc' = "query") =>
            /\ wk_pc = "loop"
            /\ now < deadline]_vars
    /\ [][(wk_pc = "loop" /\ now >= deadline /\ wk_pc' \notin {"loop", "unwound"}) =>
            /\ wk_pc' = "finished"
            /\ a_chan' = Res("DeviceReadyTimeout", NoDad)
            /\ UNCHANGED <<a_polled, a_queries, a_failed, a_seen, now>>]_vars
    /\ [][(a_chan'.kind = "DeviceReadyTimeout" /\ a_chan.kind # "DeviceReadyTimeout") =>
            /\ wk_pc = "loop"
            /\ now >= deadline]_vars
    /\ [](a_chan.kind = "DeviceReadyTimeout" =>
            /\ now >= deadline
            /\ a_retried
            /\ a_polled)

\* The original wording of C13: no address is polled after the deadline.
C13_NeverPollsAfterDeadline ==
    [][QueryStep => now < deadline]_vars

\* The call timed out: the worker slept, found the deadline passed and sent
\* DeviceReadyTimeout with an address still Tentative.
C13_Witness ==
    /\ a_pc = "returned"
    /\ a_result.kind = "DeviceReadyTimeout"
    /\ TentativeRows # {}
    /\ a_retried
    /\ now >= deadline

\* C17: the awaiting caller always returns; a value is put into the channel
\* at most once and never changed; the caller returns the value the worker
\* sent, and returns UnicastSenderDropped exactly when the worker ended
\* without sending.
C17_CallerReturnsWorkerResult ==
    /\ (a_pc = "awaiting") ~> (a_pc = "returned")
    /\ [][a_chan # NoResult => a_chan' = a_chan]_vars
    /\ [][(a_chan' # a_chan) => (wk_pc \in {"loop", "query"} /\ wk_pc' = "finished")]_vars
    /\ [](wk_pc = "finished" <=> a_chan # NoResult)
    /\ []((a_pc = "returned" /\ wk_pc = "finished") => a_result = a_chan)
    /\ []((a_pc = "returned" /\ wk_pc = "unwound") =>
            a_result = Res("UnicastSenderDropped", NoDad))
    /\ [](a_result.kind = "UnicastSenderDropped" => wk_pc = "unwound")

\* The worker ended without sending after a poll round, and the caller
\* returned UnicastSenderDropped.
C17_Witness ==
    /\ a_pc = "returned"
    /\ wk_pc = "unwound"
    /\ a_polled
    /\ a_chan = NoResult
    /\ a_result = Res("UnicastSenderDropped", NoDad)

(***************************************************************************)
(* Claims about the notifier handle.                                       *)
(***************************************************************************)
\* C4: no callback touches the handle's storage after it was freed, and when
\* the storage is freed the cancellation was requested and no callback has
\* started without having returned, nor can one start.
C4_CancelBeforeFree ==
    /\ ~uaf
    /\ mem = "freed" =>
          /\ cancel_token + cancel_null >= 1
          /\ ~os_reg
          /\ \A t \in CallbackThreads : cb[t] = "idle"
    /\ n_pc = "cancelled" => \A t \in CallbackThreads : cb[t] = "idle"

\* The handle was freed after a cancellation that had to wait for callbacks.
C4_Witness ==
    /\ mem = "freed"
    /\ n_result = "Ok"
    /\ cancel_token = 1
    /\ cancel_overlap
    /\ n_runs >= 1

\* C18: the user closure is never entered with the mutex poisoned: once the
\* mutex is poisoned no invocation gets to run the closure and the count of
\* the closure's executions stays as it is.
C18_PoisonedNeverRuns ==
    /\ [](runs_poisoned = 0)
    /\ [](poisoned => (mutex_holder = 0 /\ \A t \in CallbackThreads : cb[t] # "running"))
    /\ [][poisoned => n_runs' = n_runs]_vars

\* The closure panicked in its first execution and poisoned the mutex; the
\* process went on, and the later invocations ended without running it.
C18_Witness ==
    /\ poisoned
    /\ ~aborted
    /\ n_runs = 1
    /\ n_started = MaxInvocations
    /\ \A t \in CallbackThreads : cb[t] = "idle"

\* C19: CancelMibChangeNotify2 is called once, when the handle is destroyed,
\* for a registration the OS accepted, and is never called for a registration
\* the OS rejected.
C19_CancelOncePerAccepted ==
    /\ cancel_token <= 1
    /\ cancel_token = 1 => (n_result = "Ok" /\ n_pc \in {"cancelling", "cancelled", "freed"})
    /\ (n_result = "Ok" /\ n_pc \in {"cancelling", "cancelled", "freed"}) =>
          cancel_token = 1
    /\ n_result = "Err" => cancel_token + cancel_null = 0

(***************************************************************************)
(* Claims about the address codec.                                         *)
(***************************************************************************)
\* C14: a call of inet_sockaddr_from_socketaddr returns, for an IPv4 and for
\* an IPv6 socket address; the SOCKADDR_INET it returns carries the family
\* tag of the address's variant and the port in network byte order (the high
\* byte first in memory), and decoding it returns Ok of the same socket
\* address: the same variant, address, port, flow label and scope id.
C14_RoundTrip ==
    /\ c_src = "encode" =>
          /\ c_pc \in {"native", "decoded"}
          /\ u16_at(c_native, 0) = (IF c_addr.v = "V4" THEN AF_INET ELSE AF_INET6)
          /\ bytes_at(c_native, 2, 2) = <<c_addr.port \div 256, c_addr.port % 256>>
    /\ (c_src = "encode" /\ c_pc = "decoded") => c_decoded = OkValue(c_addr)

\* C15: try_socketaddr_from_inet_sockaddr and try_from_af_family return Ok
\* when the family tag is AF_INET or AF_INET6 (the IPv4 and the IPv6 variant
\* respectively) and otherwise UnknownAddressFamily with the tag's value.
C15_UnknownFamilyOnly ==
    /\ c_pc = "decoded" =>
          LET tag == u16_at(c_native, 0) IN
          /\ c_decoded.ok <=> tag \in {AF_INET, AF_INET6}
          /\ c_decoded.ok => c_decoded.val.v = (IF tag = AF_INET THEN "V4" ELSE "V6")
          /\ ~c_decoded.ok => c_decoded = UnknownAddressFamily(tag)
    /\ c_family # NoValue =>
          /\ c_family.ok <=> c_tag \in {AF_INET, AF_INET6}
          /\ c_family.ok =>
                c_family = OkValue(IF c_tag = AF_INET THEN "Ipv4" ELSE "Ipv6")
          /\ ~c_family.ok => c_family = UnknownAddressFamily(c_tag)

\* Both conversions refused a tag: the decoder one whose low byte is that of
\* AF_INET6, try_from_af_family the largest u16.
C15_Witness ==
    /\ c_pc = "decoded"
    /\ c_src = "os"
    /\ c_decoded = UnknownAddressFamily(279)
    /\ c_tag = 65535
    /\ c_family = UnknownAddressFamily(65535)

=============================================================================
